---- MODULE Spec2Model ----
(***************************************************************************)
(* Model of HW10.py: the contact directory (Field / Name / Phone /         *)
(* Birthday, Record, AddressBook) and its command handlers.                *)
(*                                                                         *)
(* A Python str is a sequence of one-character strings.  The character     *)
(* "U0663" stands for ARABIC-INDIC DIGIT THREE, a non-ASCII character of   *)
(* Unicode category Nd, which the pattern \d of a str regex matches.       *)
(* The message literals of the source are Ukrainian; they are written      *)
(* here transliterated.                                                    *)
(***************************************************************************)
EXTENDS Integers, Sequences, FiniteSets, TLC

\* ---------------------------------------------------------------- bounds
\* the number of phones the model lets the directory hold in all
MaxPhones == 2

\* ------------------------------------------------------------- constants
\* \d{10}
PhoneLen == 10
\* get_upcoming_birthdays(self, days=7)
DefaultDays == 7

\* --------------------------------------------------------------- strings
AsciiDigits == {"0", "1", "2", "3", "4", "5", "6", "7", "8", "9"}

\* \d of a str pattern: every character of category Nd
IsDigitChar(c) == c \in AsciiDigits \cup {"U0663"}

\* int() of one digit character
DigitVal(c) ==
  CASE c = "0" -> 0 [] c = "1" -> 1 [] c = "2" -> 2 [] c = "3" -> 3
    [] c = "4" -> 4 [] c = "5" -> 5 [] c = "6" -> 6 [] c = "7" -> 7
    [] c = "8" -> 8 [] c = "9" -> 9 [] c = "U0663" -> 3

\* the value None
None == <<>>

\* ----------------------------------------------------------------- Field
\* Name.__init__ without its check
Name_unchecked(value) == [exc |-> "none", value |-> value]

\* Name.__init__: raises ValueError iff "not value"
Name(value) ==
  IF Len(value) = 0
    THEN [exc |-> "ValueError", value |-> value]
    ELSE [exc |-> "none", value |-> value]

\* Phone.validate: re.fullmatch(r"\d{10}", phone_number) is not None
validate(phone_number) ==
  /\ Len(phone_number) = PhoneLen
  /\ \A i \in 1..Len(phone_number) : IsDigitChar(phone_number[i])

\* Phone.__init__
Phone(value) ==
  IF validate(value)
    THEN [exc |-> "none", value |-> value]
    ELSE [exc |-> "ValueError", value |-> value]

\* ------------------------------------------------------------- calendar
\* datetime._is_leap
IsLeap(y) == (y % 4 = 0) /\ ((y % 100 # 0) \/ (y % 400 = 0))

\* datetime._days_in_month
DaysInMonth(y, m) ==
  IF m = 2 THEN (IF IsLeap(y) THEN 29 ELSE 28)
  ELSE IF m \in {4, 6, 9, 11} THEN 30 ELSE 31

\* datetime._days_before_year
DaysBeforeYear(y) ==
  (y - 1) * 365 + ((y - 1) \div 4) - ((y - 1) \div 100) + ((y - 1) \div 400)

\* datetime._days_before_month
RECURSIVE DaysBeforeMonth(_, _)
DaysBeforeMonth(y, m) ==
  IF m = 1 THEN 0 ELSE DaysBeforeMonth(y, m - 1) + DaysInMonth(y, m - 1)

\* date.toordinal; a date is <<year, month, day>>
ToOrdinal(d) == DaysBeforeYear(d[1]) + DaysBeforeMonth(d[1], d[2]) + d[3]

\* the date constructor's range check
ValidDate(y, m, d) ==
  /\ y \in 1..9999
  /\ m \in 1..12
  /\ d \in 1..DaysInMonth(y, m)

\* date.replace(year=y): raises ValueError when the day does not exist
ReplaceYear(d, y) ==
  IF ValidDate(y, d[2], d[3])
    THEN [exc |-> "none", value |-> <<y, d[2], d[3]>>]
    ELSE [exc |-> "ValueError", value |-> d]

\* ------------------------------------------------------------- Birthday
\* position of the first "." of s at or after position from, 0 if none
RECURSIVE FirstDot(_, _)
FirstDot(s, from) ==
  IF from > Len(s) THEN 0
  ELSE IF s[from] = "." THEN from ELSE FirstDot(s, from + 1)

\* %d : 3[0-1]|[1-2]\d|0[1-9]|[1-9]| [1-9]
MatchDay(t) ==
  \/ /\ Len(t) = 2
     /\ \/ t[1] = "3" /\ t[2] \in {"0", "1"}
        \/ t[1] \in {"1", "2"} /\ IsDigitChar(t[2])
        \/ t[1] = "0" /\ t[2] \in AsciiDigits \ {"0"}
        \/ t[1] = " " /\ t[2] \in AsciiDigits \ {"0"}
  \/ Len(t) = 1 /\ t[1] \in AsciiDigits \ {"0"}

\* %m : 1[0-2]|0[1-9]|[1-9]
MatchMonth(t) ==
  \/ /\ Len(t) = 2
     /\ \/ t[1] = "1" /\ t[2] \in {"0", "1", "2"}
        \/ t[1] = "0" /\ t[2] \in AsciiDigits \ {"0"}
  \/ Len(t) = 1 /\ t[1] \in AsciiDigits \ {"0"}

\* %Y : \d\d\d\d, and nothing may remain after it
MatchYear(t) == Len(t) = 4 /\ \A i \in 1..4 : IsDigitChar(t[i])

\* int() of a matched group
RECURSIVE ToInt(_)
ToInt(t) ==
  IF Len(t) = 0 THEN 0
  ELSE IF t[Len(t)] = " " THEN 0
  ELSE 10 * ToInt(SubSeq(t, 1, Len(t) - 1)) + DigitVal(t[Len(t)])

\* Birthday.__init__: datetime.strptime(value, "%d.%m.%Y").date(), every
\* failure re-raised as ValueError
Birthday(value) ==
  LET i == FirstDot(value, 1)
      j == IF i = 0 THEN 0 ELSE FirstDot(value, i + 1)
      bad == [exc |-> "ValueError", value |-> None]
  IN IF i = 0 \/ j = 0 THEN bad
     ELSE LET ds == SubSeq(value, 1, i - 1)
              ms == SubSeq(value, i + 1, j - 1)
              ys == SubSeq(value, j + 1, Len(value))
          IN IF ~(MatchDay(ds) /\ MatchMonth(ms) /\ MatchYear(ys)) THEN bad
             ELSE IF ~ValidDate(ToInt(ys), ToInt(ms), ToInt(ds)) THEN bad
             ELSE [exc |-> "none",
                   value |-> <<ToInt(ys), ToInt(ms), ToInt(ds)>>]

\* zero-padded decimal rendering of n in w characters
RECURSIVE Pad(_, _)
Pad(n, w) ==
  IF w = 0 THEN <<>>
  ELSE Pad(n \div 10, w - 1) \o
       <<CHOOSE c \in AsciiDigits : DigitVal(c) = n % 10>>

\* Birthday.__str__: self.value.strftime("%d.%m.%Y"), for years >= 1000
Birthday_str(d) == Pad(d[3], 2) \o <<".">> \o Pad(d[2], 2) \o <<".">> \o Pad(d[1], 4)

\* ---------------------------------------------------------------- Record
\* Record.__init__; a record is [name, phones, birthday]
Record(name) ==
  LET n == Name(name)
  IN IF n.exc # "none"
       THEN [exc |-> n.exc, rec |-> None]
       ELSE [exc |-> "none",
             rec |-> [name |-> n.value, phones |-> <<>>, birthday |-> None]]

\* Record.add_phone skipping a phone the record already holds
add_phone_dedup(rec, phone) ==
  LET new_phone == Phone(phone)
  IN IF new_phone.exc # "none"
       THEN [exc |-> new_phone.exc, rec |-> rec]
     ELSE IF \E k \in 1..Len(rec.phones) : rec.phones[k] = new_phone.value
       THEN [exc |-> "none", rec |-> rec]
     ELSE [exc |-> "none",
           rec |-> [rec EXCEPT !.phones = Append(@, new_phone.value)]]

\* Record.add_phone
add_phone(rec, phone) ==
  LET new_phone == Phone(phone)
  IN IF new_phone.exc # "none"
       THEN [exc |-> new_phone.exc, rec |-> rec]
       ELSE [exc |-> "none",
             rec |-> [rec EXCEPT !.phones = Append(@, new_phone.value)]]

\* [p for p in phones if p.value != phone]
RECURSIVE Without(_, _)
Without(phones, phone) ==
  IF Len(phones) = 0 THEN <<>>
  ELSE IF Head(phones) # phone
    THEN <<Head(phones)>> \o Without(Tail(phones), phone)
    ELSE Without(Tail(phones), phone)

\* Record.delete_phone
delete_phone(rec, phone) == [rec EXCEPT !.phones = Without(@, phone)]

\* index of the first element of phones equal to phone, 0 if none
RECURSIVE IndexOf(_, _, _)
IndexOf(phones, phone, from) ==
  IF from > Len(phones) THEN 0
  ELSE IF phones[from] = phone THEN from
  ELSE IndexOf(phones, phone, from + 1)

\* Record.edit_phone without the return that ends the loop: every phone
\* equal to old_phone is replaced
edit_phone_all(rec, old_phone, new_phone) ==
  IF IndexOf(rec.phones, old_phone, 1) = 0
    THEN [exc |-> "ValueError", rec |-> rec]
    ELSE [exc |-> "none",
          rec |-> [rec EXCEPT !.phones =
                     [k \in 1..Len(@) |->
                        IF @[k] = old_phone THEN new_phone ELSE @[k]]]]

\* Record.edit_phone adding new_phone when old_phone is not there
edit_phone_upsert(rec, old_phone, new_phone) ==
  LET i == IndexOf(rec.phones, old_phone, 1)
  IN IF i = 0
       THEN [exc |-> "none", rec |-> [rec EXCEPT !.phones = Append(@, new_phone)]]
       ELSE [exc |-> "none", rec |-> [rec EXCEPT !.phones[i] = new_phone]]

\* Record.edit_phone: the first phone whose value equals old_phone gets
\* new_phone as its value; new_phone is not passed through Phone
edit_phone(rec, old_phone, new_phone) ==
  LET i == IndexOf(rec.phones, old_phone, 1)
  IN IF i = 0
       THEN [exc |-> "ValueError", rec |-> rec]
       ELSE [exc |-> "none", rec |-> [rec EXCEPT !.phones[i] = new_phone]]

\* Record.add_birthday
Record_add_birthday(rec, birthday) ==
  LET b == Birthday(birthday)
  IN IF b.exc # "none"
       THEN [exc |-> b.exc, rec |-> rec]
       ELSE [exc |-> "none", rec |-> [rec EXCEPT !.birthday = b.value]]

\* Record.show_birthday; a rendered string is a sequence of fragments
Record_show_birthday(rec) ==
  IF rec.birthday # None
    THEN <<"Den narodzhennia: ", Birthday_str(rec.birthday)>>
    ELSE <<"Den narodzhennia ne vstanovlenyi">>

\* Record.__str__
Record_str(rec) ==
  <<"Imia kontaktu: ", rec.name, ", telefony: ", rec.phones, ", ">>
    \o Record_show_birthday(rec)

\* ----------------------------------------------------------- AddressBook
\* AddressBook.find_record: self.data.get(name, None); the result is the
\* position of the entry in data (records are shared by reference), 0 for None
RECURSIVE find_record(_, _)
find_record(data, name) ==
  IF Len(data) = 0 THEN 0
  ELSE IF data[Len(data)].key = name THEN Len(data)
  ELSE find_record(SubSeq(data, 1, Len(data) - 1), name)

\* AddressBook.add_record keyed by the stripped name
add_record_strip(data, record) ==
  LET key == IF \A k \in 1..Len(record.name) : record.name[k] = " "
               THEN <<>> ELSE record.name
      i == find_record(data, key)
      e == [key |-> key, rec |-> record]
  IN IF i = 0 THEN Append(data, e) ELSE [data EXCEPT ![i] = e]

\* AddressBook.add_record: self.data[record.name.value] = record; an
\* existing key keeps its position, a new key goes last
add_record(data, record) ==
  LET i == find_record(data, record.name)
      e == [key |-> record.name, rec |-> record]
  IN IF i = 0 THEN Append(data, e) ELSE [data EXCEPT ![i] = e]

\* AddressBook.delete_record
delete_record(data, name) ==
  LET i == find_record(data, name)
  IN IF i = 0
       THEN [exc |-> "ValueError", data |-> data]
       ELSE [exc |-> "none",
             data |-> SubSeq(data, 1, i - 1) \o SubSeq(data, i + 1, Len(data))]

\* AddressBook.get_upcoming_birthdays, today standing for
\* datetime.now().date()
RECURSIVE get_upcoming_birthdays(_, _, _)
get_upcoming_birthdays(data, days, today) ==
  IF Len(data) = 0 THEN [exc |-> "none", value |-> <<>>]
  ELSE
    LET record == Head(data).rec
        rest == get_upcoming_birthdays(Tail(data), days, today)
    IN IF record.birthday = None THEN rest
       ELSE
         LET birthday == ReplaceYear(record.birthday, today[1])
         IN IF birthday.exc # "none"
              THEN [exc |-> birthday.exc, value |-> <<>>]
            ELSE IF rest.exc # "none" THEN rest
            ELSE LET diff == ToOrdinal(birthday.value) - ToOrdinal(today)
                 IN IF 0 <= diff /\ diff <= days
                      THEN [exc |-> "none", value |-> <<record>> \o rest.value]
                      ELSE rest

\* -------------------------------------------------------------- handlers
\* A handler body yields [exc, ret, data]: the exception it raised ("none"
\* if it returned), the string it returned, and the directory as the body
\* left it (what a body did before raising stays done).

\* input_error.inner without its IndexError clause
input_error_no_index(out) ==
  IF out.exc = "none" THEN [kind |-> "str", exc |-> "none", val |-> out.ret]
  ELSE IF out.exc = "ValueError"
    THEN [kind |-> "str", exc |-> "none", val |-> <<"Pomylka: ", out.ret>>]
  ELSE IF out.exc = "KeyError"
    THEN [kind |-> "str", exc |-> "none", val |-> <<"Kontakt ne znaideno">>]
  ELSE [kind |-> "raise", exc |-> out.exc, val |-> <<>>]

\* input_error.inner: ValueError, KeyError and IndexError become strings,
\* anything else propagates
input_error(out) ==
  IF out.exc = "none" THEN [kind |-> "str", exc |-> "none", val |-> out.ret]
  ELSE IF out.exc = "ValueError"
    THEN [kind |-> "str", exc |-> "none", val |-> <<"Pomylka: ", out.ret>>]
  ELSE IF out.exc = "KeyError"
    THEN [kind |-> "str", exc |-> "none", val |-> <<"Kontakt ne znaideno">>]
  ELSE IF out.exc = "IndexError"
    THEN [kind |-> "str", exc |-> "none",
          val |-> <<"Nedostatno arhumentiv dlia vykonannia komandy">>]
  ELSE [kind |-> "raise", exc |-> out.exc, val |-> <<>>]

\* add_contact
add_contact(args, data) ==
  IF Len(args) < 2
    THEN [exc |-> "ValueError", ret |-> "not enough values to unpack",
          data |-> data]
  ELSE
    LET name == args[1]
        phone == args[2]
        found == find_record(data, name)
        made == Record(name)
    IN IF found = 0 /\ made.exc # "none"
         THEN [exc |-> made.exc, ret |-> "Imia ne mozhe buty porozhnim",
               data |-> data]
       ELSE
         LET data1 == IF found = 0 THEN add_record(data, made.rec) ELSE data
             message == IF found = 0 THEN "Kontakt dodano."
                                     ELSE "Kontakt onovleno."
             i == IF found = 0 THEN Len(data1) ELSE found
         IN IF Len(phone) = 0
              THEN [exc |-> "none", ret |-> <<message>>, data |-> data1]
            ELSE
              LET added == add_phone(data1[i].rec, phone)
              IN IF added.exc # "none"
                   THEN [exc |-> added.exc,
                         ret |-> "Nomer telefonu maie mistyty rivno 10 tsyfr",
                         data |-> data1]
                   ELSE [exc |-> "none", ret |-> <<message>>,
                         data |-> [data1 EXCEPT ![i].rec = added.rec]]

\* change_contact
change_contact(args, data) ==
  IF Len(args) # 3
    THEN [exc |-> "ValueError", ret |-> "wrong number of values to unpack",
          data |-> data]
  ELSE
    LET i == find_record(data, args[1])
    IN IF i = 0
         THEN [exc |-> "none", ret |-> <<"Kontakt ne znaideno">>, data |-> data]
       ELSE
         LET edited == edit_phone(data[i].rec, args[2], args[3])
         IN IF edited.exc # "none"
              THEN [exc |-> edited.exc, ret |-> "Nomer telefonu ne znaideno",
                    data |-> data]
              ELSE [exc |-> "none", ret |-> <<"Nomer telefonu zmineno">>,
                    data |-> [data EXCEPT ![i].rec = edited.rec]]

\* show_phone
show_phone(args, data) ==
  IF Len(args) = 0
    THEN [exc |-> "IndexError", ret |-> "list index out of range",
          data |-> data]
  ELSE
    LET i == find_record(data, args[1])
    IN IF i = 0
         THEN [exc |-> "none", ret |-> <<"Kontakt ne znaideno">>, data |-> data]
         ELSE [exc |-> "none",
               ret |-> <<"Telefony dlia ", args[1], ": ", data[i].rec.phones>>,
               data |-> data]

\* add_birthday
add_birthday(args, data) ==
  IF Len(args) # 2
    THEN [exc |-> "ValueError", ret |-> "wrong number of values to unpack",
          data |-> data]
  ELSE
    LET i == find_record(data, args[1])
    IN IF i = 0
         THEN [exc |-> "none", ret |-> <<"Kontakt ne znaideno">>, data |-> data]
       ELSE
         LET set == Record_add_birthday(data[i].rec, args[2])
         IN IF set.exc # "none"
              THEN [exc |-> set.exc,
                    ret |-> "Nepravylnyi format daty. Vykorystovuite DD.MM.YYYY",
                    data |-> data]
              ELSE [exc |-> "none", ret |-> <<"Den narodzhennia dodano">>,
                    data |-> [data EXCEPT ![i].rec = set.rec]]

\* show_birthday
show_birthday(args, data) ==
  IF Len(args) = 0
    THEN [exc |-> "IndexError", ret |-> "list index out of range",
          data |-> data]
  ELSE
    LET i == find_record(data, args[1])
    IN IF i = 0
         THEN [exc |-> "none", ret |-> <<"Kontakt ne znaideno">>, data |-> data]
         ELSE [exc |-> "none", ret |-> Record_show_birthday(data[i].rec),
               data |-> data]

\* birthdays: args is not looked at
birthdays(args, data, today) ==
  LET upcoming_birthdays == get_upcoming_birthdays(data, DefaultDays, today)
  IN IF upcoming_birthdays.exc # "none"
       THEN [exc |-> upcoming_birthdays.exc,
             ret |-> "day is out of range for month", data |-> data]
     ELSE IF Len(upcoming_birthdays.value) = 0
       THEN [exc |-> "none",
             ret |-> <<"Nemaie dniv narodzhennia naiblyzhchym chasom">>,
             data |-> data]
     ELSE [exc |-> "none",
           ret |-> <<"Naiblyzhchi dni narodzhennia:">> \o
                   [k \in 1..Len(upcoming_birthdays.value) |->
                      <<upcoming_birthdays.value[k].name,
                        Birthday_str(upcoming_birthdays.value[k].birthday)>>],
           data |-> data]

\* show_all (not wrapped by input_error)
show_all(data) ==
  IF Len(data) = 0
    THEN [exc |-> "none", ret |-> <<"Adresna knyha porozhnia">>, data |-> data]
    ELSE [exc |-> "none",
          ret |-> [k \in 1..Len(data) |-> Record_str(data[k].rec)],
          data |-> data]

\* ---------------------------------------------------------------- inputs
Ann == <<"A", "n", "n">>
Blank == <<" ">>
Empty == <<>>
PhoneA == <<"1", "2", "3", "4", "5", "6", "7", "8", "9", "0">>
PhoneB == <<"0", "0", "0", "0", "0", "0", "0", "0", "0", "0">>
PhoneBad == <<"a", "b", "c">>
Feb29 == <<"2", "9", ".", "0", "2", ".", "2", "0", "2", "4">>
Mar08 == <<"0", "8", ".", "0", "3", ".", "2", "0", "0", "0">>
Mar8Short == <<"8", ".", "3", ".", "2", "0", "0", "0">>
Feb29Bad == <<"2", "9", ".", "0", "2", ".", "2", "0", "2", "3">>

Names == {Ann, Blank, Empty}
Stored == {Ann, Blank}
\* values of datetime.now().date()
Todays == {<<2024, 2, 29>>, <<2024, 3, 1>>, <<2023, 3, 8>>}
DaysInputs == {0, DefaultDays}

\* argument lists of "add": name and phone, and lists too short and too long
AddArgs ==
  {<<n, p>> : n \in Stored, p \in {PhoneA, PhoneBad, Empty}}
    \cup {<<>>, <<Ann>>, <<Empty, PhoneA>>, <<Ann, PhoneA, Ann>>}

\* argument lists of "change"
ChangeArgs ==
  {<<n, e[1], e[2]>> : n \in Stored,
     e \in {<<PhoneA, PhoneB>>, <<PhoneA, PhoneBad>>, <<PhoneBad, PhoneB>>}}
    \cup {<<>>, <<Ann, PhoneA>>, <<Ann, PhoneA, PhoneA>>,
          <<Empty, PhoneA, PhoneB>>, <<Ann, PhoneA, PhoneB, Ann>>}

\* argument lists of "phone" and "show-birthday"
NameArgs == {<<n>> : n \in Stored} \cup {<<>>, <<Ann, Ann>>}

\* argument lists of "add-birthday"
BirthdayArgs ==
  {<<>>, <<Ann>>, <<Ann, Feb29>>, <<Ann, Feb29Bad>>, <<Blank, Mar08>>,
   <<Blank, Mar8Short>>, <<Empty, Mar08>>, <<Ann, Mar08, Ann>>}

\* ----------------------------------------------------------------- state
VARIABLES
  book,     \* AddressBook.data: the entries [key, rec] in insertion order
  lastOp,   \* the call made last: [cmd, args, today, days]
  result    \* its outcome: [kind, exc, val]

vars == <<book, lastOp, result>>

Op(cmd, args, today, days) ==
  [cmd |-> cmd, args |-> args, today |-> today, days |-> days]

\* the number of phones the directory holds
RECURSIVE PhoneCount(_)
PhoneCount(data) ==
  IF Len(data) = 0 THEN 0
  ELSE Len(Head(data).rec.phones) + PhoneCount(Tail(data))

\* the directory holds no more than MaxPhones phones
Bounded(data) == PhoneCount(data) <= MaxPhones

\* main: book = AddressBook()
Init ==
  /\ book = <<>>
  /\ lastOp = Op("init", <<>>, None, 0)
  /\ result = [kind |-> "none", exc |-> "none", val |-> <<>>]

\* a wrapped handler runs to its end
Handled(body) ==
  \E out \in {body} :
    /\ Bounded(out.data)
    /\ book' = out.data
    /\ result' = input_error(out)

\* command "add"
AddContact ==
  \E args \in AddArgs :
    /\ Handled(add_contact(args, book))
    /\ lastOp' = Op("add", args, None, 0)

\* command "change"
ChangeContact ==
  \E args \in ChangeArgs :
    /\ Handled(change_contact(args, book))
    /\ lastOp' = Op("change", args, None, 0)

\* command "phone"
ShowPhone ==
  \E args \in NameArgs :
    /\ Handled(show_phone(args, book))
    /\ lastOp' = Op("phone", args, None, 0)

\* command "add-birthday"
AddBirthday ==
  \E args \in BirthdayArgs :
    /\ Handled(add_birthday(args, book))
    /\ lastOp' = Op("add-birthday", args, None, 0)

\* command "show-birthday"
ShowBirthday ==
  \E args \in NameArgs :
    /\ Handled(show_birthday(args, book))
    /\ lastOp' = Op("show-birthday", args, None, 0)

\* command "birthdays"
Birthdays ==
  \E call \in ({<<>>} \X Todays) \cup {<<<<Ann>>, <<2024, 3, 1>>>>} :
    LET args == call[1]
        today == call[2]
    IN /\ Handled(birthdays(args, book, today))
       /\ lastOp' = Op("birthdays", args, today, DefaultDays)

\* command "all"
ShowAll ==
  LET out == show_all(book)
  IN /\ book' = out.data
     /\ result' = [kind |-> IF out.exc = "none" THEN "str" ELSE "raise",
                   exc |-> out.exc, val |-> out.ret]
     /\ lastOp' = Op("all", <<>>, None, 0)

\* a direct call of Record.delete_phone on a stored record
DeletePhone ==
  \E k \in 1..Len(book), phone \in {PhoneA, PhoneBad} :
    /\ book' = [book EXCEPT ![k].rec = delete_phone(@, phone)]
    /\ result' = [kind |-> "none", exc |-> "none", val |-> <<>>]
    /\ lastOp' = Op("delete_phone", <<book[k].key, phone>>, None, 0)

\* a direct call of AddressBook.delete_record
DeleteRecord ==
  \E name \in Names :
    LET out == delete_record(book, name)
    IN /\ book' = out.data
       /\ result' = [kind |-> IF out.exc = "none" THEN "none" ELSE "raise",
                     exc |-> out.exc, val |-> <<>>]
       /\ lastOp' = Op("delete_record", <<name>>, None, 0)

\* a direct call of AddressBook.add_record(Record(name))
AddRecord ==
  \E name \in Names :
    LET made == Record(name)
    IN /\ book' = IF made.exc = "none" THEN add_record(book, made.rec) ELSE book
       /\ result' = [kind |-> IF made.exc = "none" THEN "none" ELSE "raise",
                     exc |-> made.exc, val |-> <<>>]
       /\ lastOp' = Op("add_record", <<name>>, None, 0)

\* a direct call of AddressBook.get_upcoming_birthdays(days)
UpcomingBirthdays ==
  \E days \in DaysInputs \cup {DefaultDays}, today \in Todays :
    LET out == get_upcoming_birthdays(book, days, today)
    IN /\ book' = book
       /\ result' = [kind |-> IF out.exc = "none" THEN "list" ELSE "raise",
                     exc |-> out.exc, val |-> out.value]
       /\ lastOp' = Op("get_upcoming_birthdays", <<>>, today, days)

Next ==
  \/ AddContact
  \/ ChangeContact
  \/ ShowPhone
  \/ AddBirthday
  \/ ShowBirthday
  \/ Birthdays
  \/ ShowAll
  \/ DeletePhone
  \/ DeleteRecord
  \/ AddRecord
  \/ UpcomingBirthdays

Spec == Init /\ [][Next]_vars

\* ------------------------------------------------- vocabulary of the claims
\* s is a string of exactly 10 decimal digits
TenDigits(s) == Len(s) = 10 /\ \A i \in 1..Len(s) : IsDigitChar(s[i])

\* s is empty or consists of whitespace only
BlankOrEmpty(s) == \A i \in 1..Len(s) : s[i] = " "

\* the positions of data whose key is name
KeysAt(data, name) == {k \in 1..Len(data) : data[k].key = name}

\* phone occurs in phones
Contains(phones, phone) == \E k \in 1..Len(phones) : phones[k] = phone

\* the commands served by the handlers
HandlerCmds ==
  {"add", "change", "phone", "add-birthday", "show-birthday", "birthdays", "all"}

\* r is the string input_error makes of a ValueError
IsErrorString(r) == r.kind = "str" /\ Len(r.val) = 2 /\ r.val[1] = "Pomylka: "

\* r is one of the two not-found messages of "change"
IsNotFound(r) ==
  /\ r.kind = "str"
  /\ \/ r.val = <<"Kontakt ne znaideno">>
     \/ r.val = <<"Pomylka: ", "Nomer telefonu ne znaideno">>

\* the records of data with a birthday whose month and day, put in the year
\* of today, lie 0..days days after today, in the order of data
RECURSIVE Expected(_, _, _)
Expected(data, days, today) ==
  IF Len(data) = 0 THEN <<>>
  ELSE
    LET r == Head(data).rec
        diff == ToOrdinal(<<today[1], r.birthday[2], r.birthday[3]>>)
                  - ToOrdinal(today)
    IN (IF r.birthday # None /\ 0 <= diff /\ diff <= days THEN <<r>> ELSE <<>>)
         \o Expected(Tail(data), days, today)

\* ----------------------------------------------------------------- claims
\* C1: every element of every record's phone list is a string of exactly 10
\* decimal digits, whatever record operations and handler calls came before.
C1_PhonesAreTenDigits ==
  \A k \in 1..Len(book) :
    \A j \in 1..Len(book[k].rec.phones) : TenDigits(book[k].rec.phones[j])

\* C2: editPhone is atomic: when newPhone is not a valid phone, editPhone on
\* an existing record fails and every phone list is what it was before.
C2_EditPhoneAtomic ==
  [][(/\ lastOp'.cmd = "change"
      /\ Len(lastOp'.args) = 3
      /\ KeysAt(book, lastOp'.args[1]) # {}
      /\ ~TenDigits(lastOp'.args[3]))
       => (IsErrorString(result') /\ book' = book)]_vars

\* C3: for every entry of the directory the record's name equals the key
\* under which the record is stored.
C3_NameEqualsKey ==
  \A k \in 1..Len(book) : book[k].rec.name = book[k].key

\* C3 witness: two records are stored, the second put there by "add" or by
\* add_record.
C3_TwoRecordsStored ==
  /\ Len(book) = 2
  /\ lastOp.cmd \in {"add", "add_record"}
  /\ book[2].key = lastOp.args[1]

\* C4: every handler call, for argument lists of every length, ends with a
\* result string; no error escapes to the caller.
C4_HandlersReturnStrings ==
  lastOp.cmd \in HandlerCmds => (result.kind = "str" /\ result.exc = "none")

\* C4 witness: "phone" was called with no argument and answered with the
\* too-few-arguments string.
C4_EmptyArgsAnswered ==
  /\ lastOp.cmd = "phone"
  /\ lastOp.args = <<>>
  /\ result.kind = "str"
  /\ result.val = <<"Nedostatno arhumentiv dlia vykonannia komandy">>

\* C5: upcomingBirthdays(days) returns exactly the records with a birthday
\* whose month/day in the current year is 0..days days after today, in
\* insertion order, for every stored birthday, 29 February included.
C5_UpcomingExact ==
  lastOp.cmd = "get_upcoming_birthdays" =>
    /\ result.kind = "list"
    /\ result.val = Expected(book, lastOp.days, lastOp.today)

\* what "add" with name and phone must leave behind, given the directory
\* before and after and the result
AddPostcondition(before, after, name, phone, res) ==
  LET old == KeysAt(before, name)
      new == KeysAt(after, name)
  IN /\ res.kind = "str"
     /\ res.val = IF old = {} THEN <<"Kontakt dodano.">>
                              ELSE <<"Kontakt onovleno.">>
     /\ Cardinality(new) = 1
     /\ Len(after) = Len(before) + (IF old = {} THEN 1 ELSE 0)
     /\ \A k \in new :
          /\ after[k].rec.name = name
          /\ after[k].rec.phones =
               Append(IF old = {} THEN <<>> ELSE before[k].rec.phones, phone)
          /\ after[k].rec.birthday =
               IF old = {} THEN None ELSE before[k].rec.birthday
     /\ \A k \in 1..Len(before) : before[k].key # name => after[k] = before[k]

\* C6 as stated: add(name, phone) with a valid phone returns "created" iff no
\* record named name existed and "updated" otherwise, and leaves exactly one
\* record for name, its phone list the previous one with phone appended
\* (no deduplication), every other record unchanged.
C6_AddAnyName ==
  [][(/\ lastOp'.cmd = "add"
      /\ Len(lastOp'.args) >= 2
      /\ TenDigits(lastOp'.args[2]))
       => AddPostcondition(book, book', lastOp'.args[1], lastOp'.args[2],
                           result')]_vars

\* C6 amended: the same, for add(name, phone) with a non-empty name and a
\* valid phone.
C6_AddNonEmptyName ==
  [][(/\ lastOp'.cmd = "add"
      /\ Len(lastOp'.args) >= 2
      /\ Len(lastOp'.args[1]) > 0
      /\ TenDigits(lastOp'.args[2]))
       => AddPostcondition(book, book', lastOp'.args[1], lastOp'.args[2],
                           result')]_vars

\* C6 witness: "add" answered "updated" and the record now holds the phone
\* twice.
C6_UpdatedWithDuplicate ==
  /\ lastOp.cmd = "add"
  /\ result.val = <<"Kontakt onovleno.">>
  /\ \E k \in KeysAt(book, lastOp.args[1]) :
       book[k].rec.phones = <<lastOp.args[2], lastOp.args[2]>>

\* "change" was the last call, with three arguments, and reported success
ChangeSucceeded(op, res) ==
  /\ op.cmd = "change"
  /\ Len(op.args) = 3
  /\ res.kind = "str"
  /\ res.val = <<"Nomer telefonu zmineno">>

\* C7 as stated: after a successful change(name, oldPhone, newPhone) with
\* oldPhone # newPhone the record's phone list contains newPhone and does not
\* contain oldPhone (taken here for a newPhone that is a valid phone).
C7_OldPhoneGone ==
  (/\ ChangeSucceeded(lastOp, result)
   /\ lastOp.args[2] # lastOp.args[3]
   /\ TenDigits(lastOp.args[3])) =>
    \A k \in KeysAt(book, lastOp.args[1]) :
      /\ Contains(book[k].rec.phones, lastOp.args[3])
      /\ ~Contains(book[k].rec.phones, lastOp.args[2])

\* C7 amended: after a successful change(name, oldPhone, newPhone) with
\* oldPhone # newPhone the record's phone list is the previous list with its
\* first occurrence of oldPhone replaced by newPhone, and nothing else in the
\* directory has changed.
C7_FirstOccurrenceReplaced ==
  [][(ChangeSucceeded(lastOp', result') /\ lastOp'.args[2] # lastOp'.args[3])
       => \E k \in KeysAt(book, lastOp'.args[1]) :
            \E f \in 1..Len(book[k].rec.phones) :
              /\ book[k].rec.phones[f] = lastOp'.args[2]
              /\ \A g \in 1..(f - 1) : book[k].rec.phones[g] # lastOp'.args[2]
              /\ book' = [book EXCEPT ![k].rec.phones[f] = lastOp'.args[3]]]_vars

\* C7 witness: a change succeeded on a record that held oldPhone twice; the
\* list begins with newPhone and still holds oldPhone.
C7_ChangedWithDuplicate ==
  /\ ChangeSucceeded(lastOp, result)
  /\ lastOp.args[2] # lastOp.args[3]
  /\ \E k \in KeysAt(book, lastOp.args[1]) :
       book[k].rec.phones = <<lastOp.args[3], lastOp.args[2]>>

\* C8: change(name, oldPhone, newPhone) where no record is named name, or
\* where the record holds no phone equal to oldPhone, returns a not-found
\* message and leaves every phone list and the set of keys unchanged.
C8_ChangeNotFound ==
  [][(/\ lastOp'.cmd = "change"
      /\ Len(lastOp'.args) = 3
      /\ \A k \in KeysAt(book, lastOp'.args[1]) :
           ~Contains(book[k].rec.phones, lastOp'.args[2]))
       => (IsNotFound(result') /\ book' = book)]_vars

\* C8 witness: a change with a stale old phone (the record holds newPhone,
\* not oldPhone) was answered with the phone-not-found message.
C8_StaleOldPhone ==
  /\ lastOp.cmd = "change"
  /\ Len(lastOp.args) = 3
  /\ result.val = <<"Pomylka: ", "Nomer telefonu ne znaideno">>
  /\ \E k \in KeysAt(book, lastOp.args[1]) :
       /\ Contains(book[k].rec.phones, lastOp.args[3])
       /\ ~Contains(book[k].rec.phones, lastOp.args[2])

\* C9 as stated: Name fails for every empty or whitespace-only value, so no
\* record and no directory entry has an empty or whitespace-only name.
C9_NoBlankName ==
  \A k \in 1..Len(book) :
    ~BlankOrEmpty(book[k].key) /\ ~BlankOrEmpty(book[k].rec.name)

\* C9 amended: Name fails for the empty value, so no record can be
\* constructed, and no directory entry exists, with an empty name.
C9_NoEmptyName ==
  /\ \A k \in 1..Len(book) :
       Len(book[k].key) > 0 /\ Len(book[k].rec.name) > 0
  /\ (lastOp.cmd = "add_record" /\ Len(lastOp.args[1]) = 0)
       => (result.kind = "raise" /\ result.exc = "ValueError")
  /\ (lastOp.cmd = "add" /\ Len(lastOp.args) >= 2 /\ Len(lastOp.args[1]) = 0)
       => IsErrorString(result)

\* C9 witness: Record("") was attempted and raised.
C9_EmptyNameRefused ==
  /\ lastOp.cmd = "add_record"
  /\ lastOp.args = <<Empty>>
  /\ result.kind = "raise"

\* C10: whenever "add" returns an error result, the directory is unchanged:
\* the same names, and each record with the same phone list and birthday.
C10_FailedAddChangesNothing ==
  [][(lastOp'.cmd = "add" /\ IsErrorString(result')) => book' = book]_vars

====
